---- MODULE Spec2Model ----
(***************************************************************************)
(* WealthWave investment dashboard (React front end).                      *)
(*                                                                         *)
(* The model follows the components App (src/unnamed/part_005),            *)
(* TickerInput (src/frontend/src/components/TickerInput.js) and the        *)
(* revisions of Dashboard kept in the repository:                          *)
(*   "per-section"  Dashboard.js lines 427-745 (one effect per section)    *)
(*   "join-all"     Dashboard.js lines  38-408 (fetchData with Promise.all)*)
(*                                                                         *)
(* React is modelled as it schedules this code: an event handler or a      *)
(* promise continuation runs to completion, its state updates are          *)
(* committed, then the effects whose dependencies changed run against the  *)
(* committed render, and their own updates are committed in turn, until    *)
(* nothing changes.  One TLA+ action is one such event together with the   *)
(* commits and effects it triggers.  A fetch is in flight from the effect  *)
(* that issues it until the action that settles it.                        *)
(***************************************************************************)
EXTENDS Naturals, Integers, Sequences, FiniteSets, Bags, TLC

VARIABLES
    rev,        \* which Dashboard revision is mounted (fixed by Init)
    app,        \* App state: selectedTicker, investmentType, isLoading
    form,       \* TickerInput state: ticker, timeframe, submitted
    dash,       \* Dashboard state (the useState slots, by their names)
    net,        \* HTTP calls in flight, in the order they were issued
    fetchData,  \* the suspended fetchData() of the join-all revision
    hist        \* history of the run (counters and last outcomes)

vars == <<rev, app, form, dash, net, fetchData, hist>>

----------------------------------------------------------------------------
(* Bounds of the exploration *)

\* Events of one run: submissions, tab clicks, view toggles, openings of a
\* modal, calls that end in anything but a decoded body holding its fields,
\* and calls whose answer is delayed past the answers to later calls.
\* Typing, closing a modal and answers that arrive in order are not counted;
\* the form is filled in only while a submission can still follow.
MaxEvents == 3
\* onAllDataLoaded calls counted per descriptor (the counter saturates)
CallCap == 3

----------------------------------------------------------------------------
(* JavaScript values *)

\* null / undefined
Null == "null"

\* !v for the values the code tests: null, undefined and '' are falsy;
\* every other string, [] and {} are truthy
Falsy(v) == v \in {Null, ""}

\* v || d
Or(v, d) == IF Falsy(v) THEN d ELSE v

EmptyArray == "[]"
EmptyObject == "{}"

----------------------------------------------------------------------------
(* Text typed into the ticker input, a sequence of characters *)

LowerCase == <<"a","b","c","d","e","f","g","h","i","j","k","l","m",
               "n","o","p","q","r","s","t","u","v","w","x","y","z">>
UpperCase == <<"A","B","C","D","E","F","G","H","I","J","K","L","M",
               "N","O","P","Q","R","S","T","U","V","W","X","Y","Z">>

IsSpace(c) == c = " "

\* String.prototype.trim
RECURSIVE TrimLeft(_)
TrimLeft(s) == IF s # <<>> /\ IsSpace(Head(s)) THEN TrimLeft(Tail(s)) ELSE s

RECURSIVE TrimRight(_)
TrimRight(s) ==
    IF s # <<>> /\ IsSpace(s[Len(s)]) THEN TrimRight(SubSeq(s, 1, Len(s) - 1)) ELSE s

\* String.prototype.trimStart: trailing space stays
TrimStart(s) == TrimLeft(s)

Trim(s) == TrimRight(TrimLeft(s))

UpperChar(c) ==
    IF \E i \in 1..26 : LowerCase[i] = c
    THEN UpperCase[CHOOSE i \in 1..26 : LowerCase[i] = c]
    ELSE c

\* String.prototype.toUpperCase
ToUpperCase(s) == [i \in 1..Len(s) |-> UpperChar(s[i])]

\* the characters as one string
RECURSIVE Str(_)
Str(s) == IF s = <<>> THEN "" ELSE Head(s) \o Str(Tail(s))

\* what the user may type
TypedTexts ==
    { <<>>,
      <<" ", " ">>,
      <<"m", "s", "f", "t">>,
      <<" ", "G", "o", "o", "g", " ">> }

Timeframes == {"short-term", "long-term"}

SHORT_TERM_PERIODS == <<"1d", "5d", "1mo", "3mo", "1y">>
LONG_TERM_PERIODS == <<"5y", "10y", "15y">>

Range(s) == {s[i] : i \in 1..Len(s)}

----------------------------------------------------------------------------
(* The analytics API, as far as the front end sees it *)

Endpoints ==
    { "esg-scores", "stock-chart", "financial-chart", "financial-recommendation",
      "stock-history", "esg-gen-report", "media-sentiment-summary",
      "holistic-summary", "financial-chart+recommendation" }

\* the fields of the response body the front end reads
Fields(ep) ==
    CASE ep = "esg-scores" -> {"esg_scores"}
      [] ep = "stock-chart" -> {"prices"}
      [] ep = "financial-chart" -> {"data"}
      [] ep = "financial-recommendation" -> {"summary", "commentary"}
      [] ep = "stock-history" -> {"recommendation"}
      [] ep = "esg-gen-report" -> {"report"}
      [] ep = "media-sentiment-summary" -> {"summary"}
      [] ep = "holistic-summary" -> {"summary"}
      [] ep = "financial-chart+recommendation" -> {"data", "summary", "commentary"}

\* what the backend answers for field f of request req, when it answers it
FieldValue(f, req) == f \o "(" \o req.ticker \o "," \o req.param \o ")"

\* How a call can end: fetch() rejects ("reject"), res.json() rejects
\* ("baddecode"), or the body is decoded and holds the fields `has`
\* (a field not in `has` is absent or falsy).
Outcomes(ep) ==
    {[kind |-> "body", has |-> h] : h \in SUBSET Fields(ep)}
        \cup {[kind |-> k, has |-> {}] : k \in {"reject", "baddecode"}}

Decoded(out) == out.kind = "body"

\* body.f
Get(out, req, f) == IF f \in out.has THEN FieldValue(f, req) ELSE Null

\* a call joined by Promise.all ends when fetch() settles: the response is
\* there ("response", its body not read yet) or fetch() rejected
JoinOutcomes == {[kind |-> k, has |-> {}] : k \in {"response", "reject"}}

\* reading a body that has arrived: res.json() resolves or rejects
BodyOutcomes(ep) ==
    {[kind |-> "body", has |-> h] : h \in SUBSET Fields(ep)}
        \cup {[kind |-> "baddecode", has |-> {}]}

\* an outcome other than a response whose body decodes and holds every field
IsFault(ep, out) ==
    ~(out.kind = "response" \/ (Decoded(out) /\ out.has = Fields(ep)))

NoAnswer == [kind |-> "none", has |-> {}]

----------------------------------------------------------------------------
(* Initial state of the components *)

InitApp == [selectedTicker |-> "", investmentType |-> "short-term", isLoading |-> FALSE]

InitForm == [ticker |-> <<>>, timeframe |-> "short-term", submitted |-> FALSE]

InitDash ==
    [ holisticSummary |-> "", loadingHolistic |-> FALSE,
      chartData |-> EmptyArray, chartPeriod |-> "1y", loadingChart |-> FALSE,
      esgScores |-> Null, esgScoresLoaded |-> FALSE, esgReport |-> Null,
      stockHistory |-> Null, mediaSentiment |-> Null,
      loadingScores |-> FALSE, loadingReport |-> FALSE,
      loadingStockHistory |-> FALSE, loadingMediaSentiment |-> FALSE,
      financialData |-> EmptyArray, financialSummary |-> Null,
      financialInsight |-> Null,
      loadingFinancials |-> FALSE, loadingFinancialData |-> FALSE,
      showFinancialModal |-> FALSE, showESGModal |-> FALSE, showStockModal |-> FALSE,
      financialView |-> "1y" ]

Idle == [pc |-> "idle", ticker |-> "", timeframe |-> "", wait |-> {}]

\* events: the events counted against MaxEvents; submits: accepted
\* submissions; doneCalls: calls of onAllDataLoaded since the last accepted
\* submission; answer[ep]: how the call of ep issued last has ended;
\* raced: some call has settled after a later call of its endpoint had
InitHist ==
    [ events |-> 0, submits |-> 0, doneCalls |-> 0, raced |-> FALSE,
      answer |-> [ep \in Endpoints |-> NoAnswer] ]

\* the components and the calls in flight, as one value
World ==
    [app |-> app, form |-> form, dash |-> dash, net |-> net,
     fetchData |-> fetchData, hist |-> hist]

Install(w) ==
    /\ app' = w.app
    /\ form' = w.form
    /\ dash' = w.dash
    /\ net' = w.net
    /\ fetchData' = w.fetchData
    /\ hist' = w.hist
    /\ rev' = rev

\* fetch(url, {body}) : the call goes in flight
Issue(w, ep, ticker, param) ==
    [w EXCEPT
       !.net = Append(@, [ep |-> ep, ticker |-> ticker, param |-> param,
                          late |-> FALSE]),
       !.hist.answer[ep] = NoAnswer]

----------------------------------------------------------------------------
(* App (part_005) and TickerInput *)

\* App.handleDashboardDone
handleDashboardDone(w) == [w EXCEPT !.app.isLoading = FALSE]

\* a call of the onAllDataLoaded prop, counted
onAllDataLoaded(w) ==
    LET k == w.hist.doneCalls
    IN handleDashboardDone(
          [w EXCEPT !.hist.doneCalls = IF k < CallCap THEN k + 1 ELSE k])

\* App.handleFormSubmit({ticker, timeframe})
handleFormSubmit(w, ticker, timeframe) ==
    IF w.app.isLoading
    THEN w
    ELSE [w EXCEPT
            !.app = [isLoading |-> TRUE, selectedTicker |-> ticker,
                     investmentType |-> timeframe],
            !.hist.submits = @ + 1,
            !.hist.events = @ + 1,
            !.hist.doneCalls = 0]

\* TickerInput.handleSubmit
handleSubmit(w) ==
    IF w.form.ticker = <<>> \/ w.app.isLoading \/ w.form.submitted
    THEN w
    ELSE handleFormSubmit([w EXCEPT !.form.submitted = TRUE],
                          Str(ToUpperCase(Trim(w.form.ticker))),
                          w.form.timeframe)

\* the disabled attribute of the inputs and of the submit button
InputDisabled == app.isLoading \/ form.submitted

SubmitDisabled == app.isLoading \/ form.submitted \/ Trim(form.ticker) = <<>>

\* TickerInput's effect on [loading, submitted]
effectResetInput(prev, cur, acc) ==
    IF (prev.app.isLoading # cur.app.isLoading
            \/ prev.form.submitted # cur.form.submitted)
       /\ ~cur.app.isLoading
    THEN [acc EXCEPT !.form.ticker = <<>>, !.form.submitted = FALSE]
    ELSE acc

----------------------------------------------------------------------------
(* Dependencies of the Dashboard effects, between two commits *)

TickerChanged(prev, cur) == prev.app.selectedTicker # cur.app.selectedTicker

TimeframeChanged(prev, cur) == prev.app.investmentType # cur.app.investmentType

\* handleDashboardDone is a new function whenever App has rendered again
CallbackChanged(prev, cur) == prev.app # cur.app

DefaultPeriod(timeframe) == IF timeframe = "long-term" THEN "5y" ELSE "1y"

----------------------------------------------------------------------------
(* Faulty variants of fetch functions of the per-section revision: what    *)
(* the properties at the end of the module rule out                        *)

\* fetchEsgScores without its finally block
fetchEsgScoresNoFinally(d, req, out) ==
    IF Decoded(out)
    THEN [d EXCEPT !.esgScores = Or(Get(out, req, "esg_scores"), EmptyObject),
                   !.esgScoresLoaded = TRUE,
                   !.loadingScores = FALSE]
    ELSE [d EXCEPT !.esgScores = EmptyObject]

\* fetchEsgScores with the catch block of the join-all fetchData
fetchEsgScoresCatchAll(d, req, out) ==
    IF Decoded(out)
    THEN [d EXCEPT !.esgScores = Or(Get(out, req, "esg_scores"), EmptyObject),
                   !.esgScoresLoaded = TRUE,
                   !.loadingScores = FALSE]
    ELSE [d EXCEPT !.stockHistory = "Error loading stock history.",
                   !.esgScores = EmptyObject,
                   !.mediaSentiment = "Error loading media headlines.",
                   !.esgReport = "Error loading ESG report.",
                   !.holisticSummary = "Error loading holistic summary.",
                   !.loadingScores = FALSE]

\* fetchEsgReport without the default for an absent field
fetchEsgReportNoDefault(d, req, out) ==
    LET d1 == IF Decoded(out)
              THEN [d EXCEPT !.esgReport = Get(out, req, "report")]
              ELSE [d EXCEPT !.esgReport = "Error loading ESG report."]
    IN [d1 EXCEPT !.loadingReport = FALSE]

\* fetchStockHistory whose catch block stores the no-data text
fetchStockHistoryNoDataOnError(d, req, out) ==
    LET d1 == IF Decoded(out)
              THEN [d EXCEPT !.stockHistory =
                      Or(Get(out, req, "recommendation"), "No stock history available.")]
              ELSE [d EXCEPT !.stockHistory = "No stock history available."]
    IN [d1 EXCEPT !.loadingStockHistory = FALSE]

----------------------------------------------------------------------------
(* Dashboard, per-section revision (Dashboard.js lines 427-745):          *)
(* what each fetch function does once its call has settled                 *)

fetchEsgScores(d, req, out) ==
    LET d1 == IF Decoded(out)
              THEN [d EXCEPT !.esgScores = Or(Get(out, req, "esg_scores"), EmptyObject),
                             !.esgScoresLoaded = TRUE]
              ELSE [d EXCEPT !.esgScores = EmptyObject]
    IN [d1 EXCEPT !.loadingScores = FALSE]

fetchChartData(d, req, out) ==
    LET d1 == IF Decoded(out)
              THEN [d EXCEPT !.chartData = Or(Get(out, req, "prices"), EmptyArray)]
              ELSE [d EXCEPT !.chartData = EmptyArray]
    IN [d1 EXCEPT !.loadingChart = FALSE]

fetchMetrics(d, req, out) ==
    LET d1 == IF Decoded(out)
              THEN [d EXCEPT !.financialData = Or(Get(out, req, "data"), EmptyArray)]
              ELSE [d EXCEPT !.financialData = EmptyArray]
    IN [d1 EXCEPT !.loadingFinancialData = FALSE]

fetchFinancialData(d, req, out) ==
    LET d1 == IF Decoded(out)
              THEN [d EXCEPT
                      !.financialSummary =
                          Or(Get(out, req, "summary"), "No summary available."),
                      !.financialInsight =
                          Or(Get(out, req, "commentary"), "No commentary available.")]
              ELSE [d EXCEPT
                      !.financialSummary = "Error loading financial summary.",
                      !.financialInsight = "Error loading financial insight."]
    IN [d1 EXCEPT !.loadingFinancials = FALSE]

fetchStockHistory(d, req, out) ==
    LET d1 == IF Decoded(out)
              THEN [d EXCEPT !.stockHistory =
                      Or(Get(out, req, "recommendation"), "No stock history available.")]
              ELSE [d EXCEPT !.stockHistory = "Error loading stock history."]
    IN [d1 EXCEPT !.loadingStockHistory = FALSE]

fetchEsgReport(d, req, out) ==
    LET d1 == IF Decoded(out)
              THEN [d EXCEPT !.esgReport =
                      Or(Get(out, req, "report"), "No ESG report available.")]
              ELSE [d EXCEPT !.esgReport = "Error loading ESG report."]
    IN [d1 EXCEPT !.loadingReport = FALSE]

fetchMediaSentiment(d, req, out) ==
    LET d1 == IF Decoded(out)
              THEN [d EXCEPT !.mediaSentiment =
                      Or(Get(out, req, "summary"), "No media headlines available.")]
              ELSE [d EXCEPT !.mediaSentiment = "Error loading media headlines."]
    IN [d1 EXCEPT !.loadingMediaSentiment = FALSE]

fetchHolisticSummary(d, req, out) ==
    LET d1 == IF Decoded(out)
              THEN [d EXCEPT !.holisticSummary =
                      Or(Get(out, req, "summary"), "No summary available.")]
              ELSE [d EXCEPT !.holisticSummary = "Error loading holistic summary."]
    IN [d1 EXCEPT !.loadingHolistic = FALSE]

\* the continuation of the fetch function that issued req
Continue(d, req, out) ==
    CASE req.ep = "esg-scores" -> fetchEsgScores(d, req, out)
      [] req.ep = "stock-chart" -> fetchChartData(d, req, out)
      [] req.ep = "financial-chart" -> fetchMetrics(d, req, out)
      [] req.ep = "financial-recommendation" -> fetchFinancialData(d, req, out)
      [] req.ep = "stock-history" -> fetchStockHistory(d, req, out)
      [] req.ep = "esg-gen-report" -> fetchEsgReport(d, req, out)
      [] req.ep = "media-sentiment-summary" -> fetchMediaSentiment(d, req, out)
      [] req.ep = "holistic-summary" -> fetchHolisticSummary(d, req, out)

----------------------------------------------------------------------------
(* Faulty variants of effects of the per-section revision *)

\* the report fetched for a new ticker with the ESG modal closed on the way
effectEsgReportClosingModal(prev, cur, acc) ==
    IF TickerChanged(prev, cur) /\ ~Falsy(cur.app.selectedTicker)
    THEN Issue([acc EXCEPT !.dash.loadingReport = TRUE,
                           !.dash.showESGModal = FALSE],
               "esg-gen-report", cur.app.selectedTicker, "")
    ELSE acc

\* the default period set when the ticker changes only: timeframe missing
\* from the dependencies
effectDefaultPeriodOnTicker(prev, cur, acc) ==
    IF TickerChanged(prev, cur) /\ ~Falsy(cur.app.selectedTicker)
    THEN [acc EXCEPT !.dash.chartPeriod = DefaultPeriod(cur.app.investmentType)]
    ELSE acc

\* the recommendation asked for the view of the previous render
effectFinancialDataStaleView(prev, cur, acc) ==
    IF (TickerChanged(prev, cur) \/ prev.dash.financialView # cur.dash.financialView)
       /\ ~Falsy(cur.app.selectedTicker) /\ ~Falsy(cur.dash.financialView)
    THEN Issue([acc EXCEPT !.dash.loadingFinancials = TRUE,
                           !.dash.financialInsight = Null,
                           !.dash.financialSummary = Null],
               "financial-recommendation", cur.app.selectedTicker,
               prev.dash.financialView)
    ELSE acc

\* the commentary fetched again for every chart period: chartPeriod among
\* the dependencies of the stock-history effect
effectStockHistoryOnPeriod(prev, cur, acc) ==
    IF (TickerChanged(prev, cur) \/ TimeframeChanged(prev, cur)
            \/ prev.dash.chartPeriod # cur.dash.chartPeriod)
       /\ ~Falsy(cur.app.selectedTicker) /\ ~Falsy(cur.app.investmentType)
    THEN Issue([acc EXCEPT !.dash.loadingStockHistory = TRUE],
               "stock-history", cur.app.selectedTicker, cur.app.investmentType)
    ELSE acc

\* the media-sentiment effect waiting for ESG scores to be there
effectMediaSentimentAfterScores(prev, cur, acc) ==
    IF TickerChanged(prev, cur) /\ ~Falsy(cur.app.selectedTicker)
       /\ ~Falsy(cur.dash.esgScores)
    THEN Issue([acc EXCEPT !.dash.loadingMediaSentiment = TRUE],
               "media-sentiment-summary", cur.app.selectedTicker, "")
    ELSE acc

----------------------------------------------------------------------------
(* Dashboard, per-section revision: the effects.  Each takes the previous  *)
(* commit, the commit it runs against, and the updates made so far.        *)

\* lines 472-476
effectAllDataLoaded(prev, cur, acc) ==
    IF (prev.dash.holisticSummary # cur.dash.holisticSummary
            \/ CallbackChanged(prev, cur))
       /\ cur.dash.holisticSummary # ""
    THEN onAllDataLoaded(acc)
    ELSE acc

\* lines 479-483
effectDefaultPeriod(prev, cur, acc) ==
    IF (TickerChanged(prev, cur) \/ TimeframeChanged(prev, cur))
       /\ ~Falsy(cur.app.selectedTicker)
    THEN [acc EXCEPT !.dash.chartPeriod = DefaultPeriod(cur.app.investmentType)]
    ELSE acc

\* lines 488-508
effectEsgScores(prev, cur, acc) ==
    IF TickerChanged(prev, cur) /\ ~Falsy(cur.app.selectedTicker)
    THEN Issue([acc EXCEPT !.dash.loadingScores = TRUE],
               "esg-scores", cur.app.selectedTicker, "")
    ELSE acc

\* lines 511-530
effectChartData(prev, cur, acc) ==
    IF (TickerChanged(prev, cur) \/ prev.dash.chartPeriod # cur.dash.chartPeriod)
       /\ ~Falsy(cur.app.selectedTicker) /\ ~Falsy(cur.dash.chartPeriod)
    THEN Issue([acc EXCEPT !.dash.loadingChart = TRUE],
               "stock-chart", cur.app.selectedTicker, cur.dash.chartPeriod)
    ELSE acc

\* lines 533-554
effectMetrics(prev, cur, acc) ==
    IF (TickerChanged(prev, cur) \/ prev.dash.financialView # cur.dash.financialView)
       /\ ~Falsy(cur.app.selectedTicker)
    THEN Issue([acc EXCEPT !.dash.loadingFinancialData = TRUE,
                           !.dash.financialData = EmptyArray],
               "financial-chart", cur.app.selectedTicker, cur.dash.financialView)
    ELSE acc

\* lines 557-583
effectFinancialData(prev, cur, acc) ==
    IF (TickerChanged(prev, cur) \/ prev.dash.financialView # cur.dash.financialView)
       /\ ~Falsy(cur.app.selectedTicker) /\ ~Falsy(cur.dash.financialView)
    THEN Issue([acc EXCEPT !.dash.loadingFinancials = TRUE,
                           !.dash.financialInsight = Null,
                           !.dash.financialSummary = Null],
               "financial-recommendation", cur.app.selectedTicker,
               cur.dash.financialView)
    ELSE acc

\* lines 586-605
effectStockHistory(prev, cur, acc) ==
    IF (TickerChanged(prev, cur) \/ TimeframeChanged(prev, cur))
       /\ ~Falsy(cur.app.selectedTicker) /\ ~Falsy(cur.app.investmentType)
    THEN Issue([acc EXCEPT !.dash.loadingStockHistory = TRUE],
               "stock-history", cur.app.selectedTicker, cur.app.investmentType)
    ELSE acc

\* lines 608-627
effectEsgReport(prev, cur, acc) ==
    IF TickerChanged(prev, cur) /\ ~Falsy(cur.app.selectedTicker)
    THEN Issue([acc EXCEPT !.dash.loadingReport = TRUE],
               "esg-gen-report", cur.app.selectedTicker, "")
    ELSE acc

\* lines 630-649
effectMediaSentiment(prev, cur, acc) ==
    IF TickerChanged(prev, cur) /\ ~Falsy(cur.app.selectedTicker)
    THEN Issue([acc EXCEPT !.dash.loadingMediaSentiment = TRUE],
               "media-sentiment-summary", cur.app.selectedTicker, "")
    ELSE acc

\* lines 652-671
effectHolisticSummary(prev, cur, acc) ==
    IF (TickerChanged(prev, cur) \/ TimeframeChanged(prev, cur))
       /\ ~Falsy(cur.app.selectedTicker) /\ ~Falsy(cur.app.investmentType)
    THEN Issue([acc EXCEPT !.dash.loadingHolistic = TRUE],
               "holistic-summary", cur.app.selectedTicker, cur.app.investmentType)
    ELSE acc

\* The effects of one commit, children first and in the order of their
\* declaration; every effect reads the render it belongs to (cur).
EffectsPerSection(prev, cur) ==
    LET a0 == effectResetInput(prev, cur, cur)
        a1 == effectAllDataLoaded(prev, cur, a0)
        a2 == effectDefaultPeriod(prev, cur, a1)
        a3 == effectEsgScores(prev, cur, a2)
        a4 == effectChartData(prev, cur, a3)
        a5 == effectMetrics(prev, cur, a4)
        a6 == effectFinancialData(prev, cur, a5)
        a7 == effectStockHistory(prev, cur, a6)
        a8 == effectEsgReport(prev, cur, a7)
        a9 == effectMediaSentiment(prev, cur, a8)
    IN effectHolisticSummary(prev, cur, a9)

----------------------------------------------------------------------------
(* Dashboard, join-all revision (Dashboard.js lines 38-408)                *)

\* the calls of Promise.all([...]) in fetchData, lines 83-104
JoinedCalls == {"stock-history", "esg-scores", "esg-gen-report", "media-sentiment-summary"}

\* the body read after the one read at pc, lines 106-120
NextBody(pc) ==
    CASE pc = "stock-history" -> "esg-scores"
      [] pc = "esg-scores" -> "media-sentiment-summary"
      [] pc = "media-sentiment-summary" -> "esg-gen-report"
      [] pc = "esg-gen-report" -> "holistic-summary"

\* the request a step of fetchData belongs to
RequestOf(fd, ep) ==
    [ep |-> ep, ticker |-> fd.ticker,
     param |-> IF ep \in {"stock-history", "holistic-summary"} THEN fd.timeframe ELSE ""]

\* the catch block, lines 130-136
fetchDataCatch(d) ==
    [d EXCEPT !.stockHistory = "Error loading stock history.",
              !.esgScores = Null,
              !.mediaSentiment = "Error loading media headlines.",
              !.esgReport = "Error loading ESG report.",
              !.holisticSummary = "Error loading holistic summary."]

\* line 138: fetchData ends
fetchDataEnd(w) == onAllDataLoaded([w EXCEPT !.fetchData = Idle])

\* lines 75-104: fetchData starts
fetchDataStart(w, ticker, timeframe) ==
    LET w0 == [w EXCEPT !.dash.loadingScores = TRUE,
                        !.dash.loadingReport = TRUE,
                        !.dash.loadingStockHistory = TRUE,
                        !.dash.loadingMediaSentiment = TRUE,
                        !.dash.loadingHolistic = TRUE,
                        !.fetchData = [pc |-> "all", ticker |-> ticker,
                                       timeframe |-> timeframe, wait |-> JoinedCalls]]
        w1 == Issue(w0, "stock-history", ticker, timeframe)
        w2 == Issue(w1, "esg-scores", ticker, "")
        w3 == Issue(w2, "esg-gen-report", ticker, "")
    IN Issue(w3, "media-sentiment-summary", ticker, "")

\* One call of the Promise.all settles.  When the last one has resolved,
\* fetchData goes on to read the first body; when one rejects, Promise.all
\* rejects at once and the calls still in flight are no longer listened to.
fetchDataJoin(w, req, out) ==
    IF out.kind = "reject"
    THEN fetchDataEnd(
            [w EXCEPT !.dash = fetchDataCatch(@),
                      !.net = SelectSeq(@, LAMBDA r : r.ep \notin JoinedCalls)])
    ELSE LET left == w.fetchData.wait \ {req.ep}
         IN [w EXCEPT !.fetchData.wait = left,
                      !.fetchData.pc = IF left = {} THEN "stock-history" ELSE "all"]

\* lines 107-120: what is committed once the body read at pc is decoded
fetchDataCommit(d, pc, req, out) ==
    CASE pc = "stock-history" ->
            [d EXCEPT !.stockHistory =
                        Or(Get(out, req, "recommendation"), "No stock history available."),
                      !.loadingStockHistory = FALSE]
      [] pc = "esg-scores" ->
            [d EXCEPT !.esgScores = Or(Get(out, req, "esg_scores"), EmptyObject),
                      !.loadingScores = FALSE]
      [] pc = "media-sentiment-summary" ->
            [d EXCEPT !.mediaSentiment =
                        Or(Get(out, req, "summary"), "No media headlines available."),
                      !.loadingMediaSentiment = FALSE]
      [] pc = "esg-gen-report" ->
            [d EXCEPT !.esgReport = Or(Get(out, req, "report"), "No ESG report available."),
                      !.loadingReport = FALSE]
      [] pc = "holistic-summary" ->
            [d EXCEPT !.holisticSummary =
                        Or(Get(out, req, "summary"), "No summary available."),
                      !.loadingHolistic = FALSE]

\* the summary asked for before the body of the report is read
fetchDataBodyEarlySummary(w, out) ==
    LET pc == w.fetchData.pc
        req == RequestOf(w.fetchData, pc)
    IN IF ~Decoded(out)
       THEN fetchDataEnd([w EXCEPT !.dash = fetchDataCatch(@)])
       ELSE LET w1 == [w EXCEPT !.dash = fetchDataCommit(@, pc, req, out),
                                !.fetchData.pc = NextBody(pc)]
            IN IF pc = "media-sentiment-summary"
               THEN Issue(w1, "holistic-summary", w.fetchData.ticker,
                          w.fetchData.timeframe)
               ELSE w1

\* lines 106-129: await res.json() at pc resolves or rejects
fetchDataBody(w, out) ==
    LET pc == w.fetchData.pc
        req == RequestOf(w.fetchData, pc)
    IN IF ~Decoded(out)
       THEN fetchDataEnd([w EXCEPT !.dash = fetchDataCatch(@)])
       ELSE LET w1 == [w EXCEPT !.dash = fetchDataCommit(@, pc, req, out),
                                !.fetchData.pc = NextBody(pc)]
            IN IF pc = "esg-gen-report"
               THEN Issue(w1, "holistic-summary", w.fetchData.ticker,
                          w.fetchData.timeframe)
               ELSE w1

\* lines 122-129: the holistic-summary call settles and its body is read
fetchDataHolistic(w, req, out) ==
    IF Decoded(out)
    THEN fetchDataEnd([w EXCEPT !.dash = fetchDataCommit(@, "holistic-summary", req, out)])
    ELSE fetchDataEnd([w EXCEPT !.dash = fetchDataCatch(@)])

\* lines 176-203: fetchFinancialData once both of its calls have settled
fetchFinancialDataJoined(d, req, out) ==
    LET d1 == IF Decoded(out)
              THEN [d EXCEPT
                      !.financialData = Or(Get(out, req, "data"), EmptyArray),
                      !.financialSummary =
                          Or(Get(out, req, "summary"), "No summary available."),
                      !.financialInsight =
                          Or(Get(out, req, "commentary"), "No commentary available.")]
              ELSE [d EXCEPT
                      !.financialSummary = "Error loading financial summary.",
                      !.financialInsight = "Error loading financial insight.",
                      !.financialData = EmptyArray]
    IN [d1 EXCEPT !.loadingFinancials = FALSE]

\* lines 72-142
effectFetchData(prev, cur, acc) ==
    IF (TickerChanged(prev, cur) \/ TimeframeChanged(prev, cur))
       /\ ~Falsy(cur.app.selectedTicker)
    THEN fetchDataStart(acc, cur.app.selectedTicker, cur.app.investmentType)
    ELSE acc

\* lines 167-208; its two calls are one entry of net, settled together
effectFinancialDataJoined(prev, cur, acc) ==
    IF (TickerChanged(prev, cur) \/ prev.dash.financialView # cur.dash.financialView)
       /\ ~Falsy(cur.app.selectedTicker) /\ ~Falsy(cur.dash.financialView)
    THEN Issue([acc EXCEPT !.dash.loadingFinancials = TRUE,
                           !.dash.financialData = EmptyArray,
                           !.dash.financialInsight = Null,
                           !.dash.financialSummary = Null],
               "financial-chart+recommendation", cur.app.selectedTicker,
               cur.dash.financialView)
    ELSE acc

\* effects of one commit (lines 66-70 and 144-165 are those of the
\* per-section revision)
EffectsJoinAll(prev, cur) ==
    LET a0 == effectResetInput(prev, cur, cur)
        a1 == effectDefaultPeriod(prev, cur, a0)
        a2 == effectFetchData(prev, cur, a1)
        a3 == effectChartData(prev, cur, a2)
    IN effectFinancialDataJoined(prev, cur, a3)

\* a settled call resumes the function that awaits it
SettledJoinAll(w, req, out) ==
    CASE req.ep \in JoinedCalls -> fetchDataJoin(w, req, out)
      [] req.ep = "holistic-summary" -> fetchDataHolistic(w, req, out)
      [] req.ep = "stock-chart" -> [w EXCEPT !.dash = fetchChartData(@, req, out)]
      [] req.ep = "financial-chart+recommendation" ->
            [w EXCEPT !.dash = fetchFinancialDataJoined(@, req, out)]

----------------------------------------------------------------------------
(* Commit and effects, until nothing changes *)

Effects(prev, cur) ==
    IF rev = "per-section"
    THEN EffectsPerSection(prev, cur)
    ELSE EffectsJoinAll(prev, cur)

SameRender(a, b) == a.app = b.app /\ a.form = b.form /\ a.dash = b.dash

\* (a value is bound through a singleton set so that it is computed once)
RECURSIVE Cascade(_, _)
Cascade(prev, cur) ==
    IF SameRender(prev, cur)
    THEN cur
    ELSE CHOOSE w \in {Cascade(cur, next) : next \in {Effects(prev, cur)}} : TRUE

\* an event has led from World to w1: its updates are committed, the
\* effects run, and the outcome is the next state
Commit(w1) ==
    \E w0 \in {w1} :
        \E w \in {Cascade(World, w0)} : Install(w)

----------------------------------------------------------------------------
(* Actions *)

Min(a, b) == IF a <= b THEN a ELSE b

RemoveAt(s, i) == SubSeq(s, 1, i - 1) \o SubSeq(s, i + 1, Len(s))

\* how the call req can end
OutcomesOf(req) ==
    IF rev = "join-all" /\ req.ep \in JoinedCalls
    THEN JoinOutcomes
    ELSE Outcomes(req.ep)

\* an outcome as the run records it: a rejected fetch and an undecodable
\* body are both "failed"
Heard(out) ==
    [kind |-> IF out.kind \in {"reject", "baddecode"} THEN "failed" ELSE out.kind,
     has |-> out.has]

\* the run's record of an outcome; `last` says that the call is the one of
\* its endpoint issued last
Recorded(w, ep, last, out) ==
    [w EXCEPT !.hist.events = IF IsFault(ep, out) THEN @ + 1 ELSE @,
              !.hist.answer[ep] = IF last THEN Heard(out) ELSE @,
              !.hist.raced = @ \/ (~last /\ w.hist.answer[ep] # NoAnswer)]

\* net[i] is the call of its endpoint issued last: no later call of the
\* endpoint is in flight, and none has been answered
IsLast(i) ==
    /\ \A j \in (i + 1)..Len(net) : net[j].ep # net[i].ep
    /\ hist.answer[net[i].ep] = NoAnswer

\* the calls whose answer is delayed are the oldest ones in flight
NumLate == Cardinality({j \in 1..Len(net) : net[j].late})

\* onChange of the text input
TypeTicker ==
    \E text \in TypedTexts :
        /\ ~InputDisabled
        /\ text # form.ticker
        /\ hist.events < MaxEvents
        /\ Commit([World EXCEPT !.form.ticker = text])

\* onChange of the select
SelectTimeframe ==
    \E tf \in Timeframes :
        /\ ~InputDisabled
        /\ tf # form.timeframe
        /\ hist.events < MaxEvents
        /\ Commit([World EXCEPT !.form.timeframe = tf])

\* the form is submitted
Submit ==
    /\ ~SubmitDisabled
    /\ hist.events < MaxEvents
    /\ Commit(handleSubmit(World))

\* the tabs the runs click on: the first and the last of the row
ClickedTabs(periods) == {Head(periods), periods[Len(periods)]}

\* renderTabs: a click on the tab of period p
TabClick ==
    \E p \in ClickedTabs(IF app.investmentType = "long-term"
                         THEN LONG_TERM_PERIODS ELSE SHORT_TERM_PERIODS) :
        /\ p # dash.chartPeriod
        /\ hist.events < MaxEvents
        /\ Commit([World EXCEPT !.dash.chartPeriod = p,
                                                !.hist.events = @ + 1])

\* a click on Quarterly ('1y') or Annual ('5y')
ToggleView ==
    \E v \in {"1y", "5y"} :
        /\ v # dash.financialView
        /\ hist.events < MaxEvents
        /\ Commit([World EXCEPT !.dash.financialView = v,
                                                !.hist.events = @ + 1])

Modals == {"stock", "financial", "esg"}

\* an info button disabled on missing data only, the loading flag ignored
InfoDisabledOnDataOnly(d, m) ==
    CASE m = "stock" -> Falsy(d.stockHistory)
      [] m = "financial" -> Falsy(d.financialInsight)
      [] m = "esg" -> Falsy(d.esgReport)

\* the disabled attribute of an info button
InfoDisabled(d, m) ==
    CASE m = "stock" -> d.loadingStockHistory \/ Falsy(d.stockHistory)
      [] m = "financial" -> d.loadingFinancials \/ Falsy(d.financialInsight)
      [] m = "esg" -> d.loadingReport \/ Falsy(d.esgReport)

Shown(d, m) ==
    CASE m = "stock" -> d.showStockModal
      [] m = "financial" -> d.showFinancialModal
      [] m = "esg" -> d.showESGModal

\* the report cleared when the ESG modal is closed
SetShownClearingReport(d, m, b) ==
    CASE m = "stock" -> [d EXCEPT !.showStockModal = b]
      [] m = "financial" -> [d EXCEPT !.showFinancialModal = b]
      [] m = "esg" -> [d EXCEPT !.showESGModal = b,
                                !.esgReport = IF b THEN @ ELSE Null]

SetShown(d, m, b) ==
    CASE m = "stock" -> [d EXCEPT !.showStockModal = b]
      [] m = "financial" -> [d EXCEPT !.showFinancialModal = b]
      [] m = "esg" -> [d EXCEPT !.showESGModal = b]

\* a click on an info button
OpenModal ==
    \E m \in Modals :
        /\ ~InfoDisabled(dash, m)
        /\ ~Shown(dash, m)
        /\ hist.events < MaxEvents
        /\ Commit([World EXCEPT !.dash = SetShown(@, m, TRUE),
                                                !.hist.events = @ + 1])

\* Close button or onRequestClose of a modal
CloseModal ==
    \E m \in Modals :
        /\ Shown(dash, m)
        /\ Commit([World EXCEPT !.dash = SetShown(@, m, FALSE)])

\* the answer to the oldest call not yet delayed is delayed: later calls
\* will be answered before it
Delay ==
    /\ NumLate < Len(net)
    /\ hist.events < MaxEvents
    /\ net' = [net EXCEPT ![NumLate + 1].late = TRUE]
    /\ hist' = [hist EXCEPT !.events = @ + 1]
    /\ UNCHANGED <<rev, app, form, dash, fetchData>>

\* a call settles: a delayed one, or the oldest of the others
Settle ==
    \E i \in 1..Min(Len(net), NumLate + 1) :
        \E out \in OutcomesOf(net[i]) :
            /\ IsFault(net[i].ep, out) => hist.events < MaxEvents
            /\ LET req == net[i]
                   w0 == Recorded([World EXCEPT !.net = RemoveAt(@, i)],
                                  req.ep, IsLast(i), out)
                   w1 == IF rev = "per-section"
                         THEN [w0 EXCEPT !.dash = Continue(@, req, out)]
                         ELSE SettledJoinAll(w0, req, out)
               IN Commit(w1)

\* join-all revision: the body fetchData is reading is decoded, or is not
ReadBody ==
    /\ fetchData.pc \in JoinedCalls
    /\ \E out \in BodyOutcomes(fetchData.pc) :
        /\ IsFault(fetchData.pc, out) => hist.events < MaxEvents
        /\ LET w0 == Recorded(World, fetchData.pc, TRUE, out)
           IN Commit(fetchDataBody(w0, out))

----------------------------------------------------------------------------
(* Specifications *)

InitCommon ==
    /\ app = InitApp
    /\ form = InitForm
    /\ dash = InitDash
    /\ net = <<>>
    /\ fetchData = Idle
    /\ hist = InitHist

InitPerSection == rev = "per-section" /\ InitCommon

InitJoinAll == rev = "join-all" /\ InitCommon

NextPerSection ==
    \/ TypeTicker
    \/ SelectTimeframe
    \/ Submit
    \/ TabClick
    \/ ToggleView
    \/ OpenModal
    \/ CloseModal
    \/ Delay
    \/ Settle

NextJoinAll ==
    \/ TypeTicker
    \/ SelectTimeframe
    \/ Submit
    \/ TabClick
    \/ ToggleView
    \/ OpenModal
    \/ Delay
    \/ Settle
    \/ ReadBody

SpecPerSection == InitPerSection /\ [][NextPerSection]_vars

SpecJoinAll == InitJoinAll /\ [][NextJoinAll]_vars

\* every call in flight settles, and every body that has arrived is read
FairSpecPerSection == SpecPerSection /\ WF_vars(Settle)

FairSpecJoinAll == SpecJoinAll /\ WF_vars(Settle) /\ WF_vars(ReadBody)

----------------------------------------------------------------------------
(* The panels *)

\* ESGScore.js lines 63-92: what the ESG panel renders below its title
ESGScoreView(ticker, d) ==
    IF Falsy(ticker) THEN "nothing"
    ELSE IF d.loadingScores THEN "Loading ESG data..."
    ELSE IF ~d.esgScoresLoaded THEN "No ESG data available."
    ELSE "scores"

\* part_003 lines 16-22: what the summary panel renders below its title;
\* the markdown of '' is no content at all
HolisticSummaryView(d) ==
    IF d.loadingHolistic THEN "Loading holistic summary..."
    ELSE IF Falsy(d.holisticSummary) THEN "nothing"
    ELSE "summary"

\* MediaAnalysis.js lines 16-24: <p>{mediaSentiment}</p> is empty for null
MediaAnalysisView(d) ==
    IF d.loadingMediaSentiment THEN "Loading media analysis..."
    ELSE IF Falsy(d.mediaSentiment) THEN "nothing"
    ELSE "sentiment"

\* StockHistory.js lines 83-100: the chart is drawn from chartData, also
\* when it is []
StockHistoryView(d) ==
    IF d.loadingChart THEN "Loading chart..."
    ELSE IF d.chartData = EmptyArray THEN "chart without a line"
    ELSE "chart"

\* part_004 lines 72-92
FinancialMetricsView(ticker, d) ==
    IF Falsy(ticker) \/ d.financialData = EmptyArray THEN "nothing"
    ELSE "chart"

----------------------------------------------------------------------------
(* Vocabulary of the properties *)

\* the sections of the dashboard, by the state slot that holds their data
Sections ==
    { "esgScores", "chartData", "financialData", "financialSummary",
      "financialInsight", "stockHistory", "esgReport", "mediaSentiment",
      "holisticSummary" }

\* the sections whose data is a text
TextSections ==
    { "financialSummary", "financialInsight", "stockHistory", "esgReport",
      "mediaSentiment", "holisticSummary" }

\* the sections fetchData of the join-all revision fills
JoinAllSections ==
    {"esgScores", "stockHistory", "esgReport", "mediaSentiment", "holisticSummary"}

\* the endpoint a section is fetched from
EndpointOf(s) ==
    CASE s = "esgScores" -> "esg-scores"
      [] s = "chartData" -> "stock-chart"
      [] s = "financialData" ->
            IF rev = "per-section" THEN "financial-chart"
            ELSE "financial-chart+recommendation"
      [] s \in {"financialSummary", "financialInsight"} ->
            IF rev = "per-section" THEN "financial-recommendation"
            ELSE "financial-chart+recommendation"
      [] s = "stockHistory" -> "stock-history"
      [] s = "esgReport" -> "esg-gen-report"
      [] s = "mediaSentiment" -> "media-sentiment-summary"
      [] s = "holisticSummary" -> "holistic-summary"

\* the field of the response body a section is taken from
BodyField(s) ==
    CASE s = "esgScores" -> "esg_scores"
      [] s = "chartData" -> "prices"
      [] s = "financialData" -> "data"
      [] s = "financialSummary" -> "summary"
      [] s = "financialInsight" -> "commentary"
      [] s = "stockHistory" -> "recommendation"
      [] s = "esgReport" -> "report"
      [] s = "mediaSentiment" -> "summary"
      [] s = "holisticSummary" -> "summary"

\* the documented value of a section whose response lacks its field
Fallback(s) ==
    CASE s = "esgScores" -> EmptyObject
      [] s = "chartData" -> EmptyArray
      [] s = "financialData" -> EmptyArray
      [] s = "financialSummary" -> "No summary available."
      [] s = "financialInsight" -> "No commentary available."
      [] s = "stockHistory" -> "No stock history available."
      [] s = "esgReport" -> "No ESG report available."
      [] s = "mediaSentiment" -> "No media headlines available."
      [] s = "holisticSummary" -> "No summary available."

\* the value of a section whose call was rejected or whose body could not
\* be decoded (per-section revision)
OnError(s) ==
    CASE s = "esgScores" -> EmptyObject
      [] s = "chartData" -> EmptyArray
      [] s = "financialData" -> EmptyArray
      [] s = "financialSummary" -> "Error loading financial summary."
      [] s = "financialInsight" -> "Error loading financial insight."
      [] s = "stockHistory" -> "Error loading stock history."
      [] s = "esgReport" -> "Error loading ESG report."
      [] s = "mediaSentiment" -> "Error loading media headlines."
      [] s = "holisticSummary" -> "Error loading holistic summary."

\* the sub-parameters a call for a section can carry under the displayed
\* descriptor
ParamsOf(s) ==
    CASE s \in {"stockHistory", "holisticSummary"} -> {app.investmentType}
      [] s = "chartData" -> Range(SHORT_TERM_PERIODS) \cup Range(LONG_TERM_PERIODS)
      [] s \in {"financialData", "financialSummary", "financialInsight"} -> {"1y", "5y"}
      [] OTHER -> {""}

\* the values a section can take from the answer to a call issued for the
\* displayed descriptor
OfDescriptor(s) ==
    { Or(Get(out, [ticker |-> app.selectedTicker, param |-> p], BodyField(s)),
         Fallback(s)) :
        out \in {o \in Outcomes(EndpointOf(s)) : Decoded(o)}, p \in ParamsOf(s) }
      \cup {OnError(s)}

\* the request for a section under the descriptor and the sub-parameters
\* that are displayed
CurrentRequest(s) ==
    [ep |-> EndpointOf(s),
     ticker |-> app.selectedTicker,
     param |-> CASE s \in {"stockHistory", "holisticSummary"} -> app.investmentType
                 [] s = "chartData" -> dash.chartPeriod
                 [] s \in {"financialData", "financialSummary", "financialInsight"} ->
                        dash.financialView
                 [] OTHER -> ""]

\* how the latest call for a section has ended
Answer(s) == hist.answer[EndpointOf(s)]

Succeeded(s) == Answer(s).kind = "body"

Failed(s) == Answer(s).kind = "failed"

\* the value the response to the latest call for a section stands for
Delivered(s) == Or(Get(Answer(s), CurrentRequest(s), BodyField(s)), Fallback(s))

\* no call is in flight and no function is suspended
Quiet == net = <<>> /\ fetchData = Idle

LoadingFlags ==
    { "loadingScores", "loadingReport", "loadingStockHistory",
      "loadingMediaSentiment", "loadingHolistic", "loadingChart",
      "loadingFinancialData", "loadingFinancials" }

\* the calls issued when a descriptor is accepted that no tab or toggle
\* issues again
PrimaryCalls ==
    { "esg-scores", "esg-gen-report", "media-sentiment-summary",
      "stock-history", "holistic-summary" }

----------------------------------------------------------------------------
(* Properties *)

\* C1 (per-section revision): a response to a call issued for a superseded
\* descriptor never overwrites the state of the current one: once a second
\* descriptor has been accepted and every call has settled, every section
\* holds a value that answers a call for the displayed descriptor.
C1_StaleResponseNeverOverwrites ==
    (hist.submits >= 2 /\ Quiet) =>
        \A s \in Sections : dash[s] \in OfDescriptor(s)

\* C2 (per-section revision): while a call issued at the acceptance of a
\* descriptor is in flight the form is disabled, and the calls in flight
\* never belong to two descriptors.
C2_FormDisabledWhileFetching ==
    /\ (\E i \in 1..Len(net) : net[i].ep \in PrimaryCalls) => InputDisabled
    /\ \A i, j \in 1..Len(net) :
          /\ net[i].ticker = net[j].ticker
          /\ (net[i].ep = net[j].ep /\ net[i].ep \in {"stock-history", "holistic-summary"})
                => net[i].param = net[j].param

\* C3 (per-section revision): onAllDataLoaded is called exactly once for an
\* accepted descriptor, and not before the holistic-summary call of that
\* descriptor has settled.
C3_DoneExactlyOnce ==
    /\ hist.doneCalls <= 1
    /\ hist.doneCalls >= 1 => hist.answer["holistic-summary"] # NoAnswer
    /\ (hist.submits >= 1 /\ Quiet) => hist.doneCalls = 1

\* C4 (join-all revision, every call settles): an accepted submission is
\* followed by a call of onAllDataLoaded, so the form is enabled again.
C4_FormEnabledAgain == app.isLoading ~> ~app.isLoading

\* C4: a state of the case: the form is disabled, no call is in flight,
\* fetchData is not running, and the run could still go on
C4_Case == app.isLoading /\ Quiet /\ hist.events < MaxEvents

\* C5 (join-all revision): once onAllDataLoaded has been called for a
\* descriptor, the five loading flags fetchData raised are false.
C5_NothingLoadingWhenDone ==
    hist.doneCalls >= 1 =>
        /\ ~dash.loadingScores
        /\ ~dash.loadingReport
        /\ ~dash.loadingStockHistory
        /\ ~dash.loadingMediaSentiment
        /\ ~dash.loadingHolistic

\* C6 (per-section revision, every call settles): every loading flag ends
\* false for good, whatever the answers are, and a flag that is false
\* becomes true only in a step that changes the descriptor or a
\* sub-parameter (chart period, financial view).
C6_LoadingEnds ==
    /\ <>[](\A f \in LoadingFlags : ~dash[f])
    /\ [][\A f \in LoadingFlags :
            (~dash[f] /\ dash'[f]) =>
                \/ app'.selectedTicker # app.selectedTicker
                \/ app'.investmentType # app.investmentType
                \/ dash'.chartPeriod # dash.chartPeriod
                \/ dash'.financialView # dash.financialView]_vars

\* C6: a state of the case: calls have failed, all have settled, no flag
\* is left raised
C6_Case ==
    /\ Quiet
    /\ Failed("esgScores") /\ Failed("holisticSummary")
    /\ \A f \in LoadingFlags : ~dash[f]

\* C7 (per-section revision): when the ESG-scores call of the displayed
\* descriptor has failed and the call of every other section has been
\* answered, every other section holds the value of its own answer and
\* onAllDataLoaded has been called (no answer having overtaken another).
C7_EsgFailureIsContained ==
    ( /\ Quiet /\ ~hist.raced
      /\ Failed("esgScores")
      /\ \A s \in Sections \ {"esgScores"} : Succeeded(s) )
    => /\ \A s \in Sections \ {"esgScores"} : dash[s] = Delivered(s)
       /\ hist.doneCalls >= 1

\* C7: a state of the case: the ESG-scores call failed, the other calls
\* were answered in full, and the stock history is shown
C7_Case ==
    /\ Quiet /\ ~hist.raced
    /\ Failed("esgScores")
    /\ \A s \in Sections \ {"esgScores"} : Answer(s).has = Fields(EndpointOf(s))
    /\ dash.stockHistory = FieldValue("recommendation", CurrentRequest("stockHistory"))
    /\ ~app.isLoading

\* C8 (join-all revision): once fetchData has ended, every section whose
\* own body was decoded holds the value of that body, whatever happened to
\* the other calls.
C8_FailureSparesOtherSections ==
    (hist.doneCalls >= 1 /\ fetchData = Idle) =>
        \A s \in JoinAllSections : Succeeded(s) => dash[s] = Delivered(s)

\* C9 (per-section revision, ESGScore panel): when the latest ESG-scores
\* call has failed, the panel does not render the populated score view.
C9_EsgPanelFallbackAfterFailure ==
    Failed("esgScores") => ESGScoreView(app.selectedTicker, dash) # "scores"

\* C10 as stated (per-section revision): a section whose latest call has
\* failed holds the documented no-data value of the section.
C10_FailureLooksLikeNoData ==
    \A s \in Sections \ {"esgScores"} :
        (Failed(s) /\ ~hist.raced) => dash[s] = Fallback(s)

\* C10 amended: a section whose latest call has failed holds its error
\* value: for the text sections a text "Error loading ..." that differs
\* from the no-data text, for the chart and the financial chart the empty
\* list, which is also their no-data value.
C10_FailureValue ==
    \A s \in Sections \ {"esgScores"} :
        (Failed(s) /\ ~hist.raced) =>
            /\ dash[s] = OnError(s)
            /\ (s \in TextSections) <=> (dash[s] # Fallback(s))

\* C10: a state of the case: the stock-history call has failed and the
\* section shows its error text
C10_Case ==
    /\ Failed("stockHistory") /\ ~hist.raced
    /\ dash.stockHistory = "Error loading stock history."
    /\ ~dash.loadingStockHistory

----------------------------------------------------------------------------
(* Vocabulary of the properties of single steps *)

\* the step brings a descriptor with another ticker or another timeframe
DescriptorChanged ==
    \/ app'.selectedTicker # app.selectedTicker
    \/ app'.investmentType # app.investmentType

\* the step accepts a submission
Accepted == hist'.submits # hist.submits

\* the step settles no call: the calls in flight stay, in their order
NoneSettled == Len(net') >= Len(net) /\ SubSeq(net', 1, Len(net)) = net

\* the calls the step issues, in a step that settles none
Issued == [i \in 1..(Len(net') - Len(net)) |-> net'[Len(net) + i]]

\* a call as it is issued
Call(ep, ticker, param) ==
    [ep |-> ep, ticker |-> ticker, param |-> param, late |-> FALSE]

\* the loading flag of a section
LoadingOf(s) ==
    CASE s = "esgScores" -> "loadingScores"
      [] s = "chartData" -> "loadingChart"
      [] s = "financialData" -> "loadingFinancialData"
      [] s \in {"financialSummary", "financialInsight"} -> "loadingFinancials"
      [] s = "stockHistory" -> "loadingStockHistory"
      [] s = "esgReport" -> "loadingReport"
      [] s = "mediaSentiment" -> "loadingMediaSentiment"
      [] s = "holisticSummary" -> "loadingHolistic"

----------------------------------------------------------------------------
(* Properties, continued *)

\* C11 (per-section revision): after a decoded response, the data of the
\* section is the named field of the body when the field is present and
\* truthy, and the documented default of the section otherwise (no answer
\* having overtaken another).
C11_FieldOrDefault ==
    \A s \in Sections :
        (Succeeded(s) /\ ~hist.raced) =>
            dash[s] = IF BodyField(s) \in Answer(s).has
                      THEN FieldValue(BodyField(s), CurrentRequest(s))
                      ELSE Fallback(s)

\* C11: a state of the case: a body without its field gave the default,
\* a body with its field gave the field
C11_Case ==
    /\ ~hist.raced
    /\ Succeeded("esgReport") /\ Answer("esgReport").has = {}
    /\ dash.esgReport = "No ESG report available."
    /\ Succeeded("stockHistory") /\ "recommendation" \in Answer("stockHistory").has
    /\ dash.stockHistory = FieldValue("recommendation", CurrentRequest("stockHistory"))

\* C12 (per-section revision): a step that brings a new descriptor raises
\* the loading flag of every section and clears the data of every section
\* (back to the value the slot had before any load).
C12_FullResetOnNewDescriptor ==
    [][DescriptorChanged =>
          /\ \A f \in LoadingFlags : dash'[f]
          /\ \A s \in Sections : dash'[s] = InitDash[s]]_vars

\* the primary call of endpoint ep under the descriptor the step brings
PrimaryCall(ep) ==
    Call(ep, app'.selectedTicker,
         IF ep \in {"stock-history", "holistic-summary"}
         THEN app'.investmentType ELSE "")

\* how many of the calls the step issues go to endpoint ep
NumIssued(ep) == Cardinality({i \in DOMAIN Issued : Issued[i].ep = ep})

\* the step issues exactly one call to ep, the primary call of the new
\* descriptor
IssuesPrimary(ep) ==
    /\ NumIssued(ep) = 1
    /\ \E i \in DOMAIN Issued : Issued[i] = PrimaryCall(ep)

C14_ResubmissionFetchesAgain ==
    [][Accepted => Len(net') > Len(net)]_vars

----------------------------------------------------------------------------
(* The form's submit event without the button *)

\* A submit event reaches the form although the submit button is disabled
\* (form.requestSubmit(), a script): onSubmit={handleSubmit} runs all the
\* same.
SubmitEvent ==
    /\ SubmitDisabled
    /\ hist.events < MaxEvents
    /\ Commit(handleSubmit(World))

NextSubmitEvent ==
    \/ TypeTicker
    \/ SelectTimeframe
    \/ Submit
    \/ SubmitEvent
    \/ TabClick
    \/ ToggleView
    \/ OpenModal
    \/ CloseModal
    \/ Delay
    \/ Settle

SpecSubmitEvent == InitPerSection /\ [][NextSubmitEvent]_vars

\* C15: while the typed text is empty or blank, or a request is in flight
\* (loading or submitted), no submission is accepted and the form is not
\* marked submitted; so no accepted descriptor has an empty ticker.
C15_RejectsBlankAndBusy ==
    [][/\ (Trim(form.ticker) = <<>> \/ app.isLoading \/ form.submitted) =>
              (~Accepted /\ (form'.submitted => form.submitted))
       /\ Accepted => app'.selectedTicker # ""]_vars

\* C15: a state of the case: a descriptor with an empty ticker has been
\* accepted
C15_Case == hist.submits >= 1 /\ app.selectedTicker = "" /\ app.isLoading

\* what the descriptor's ticker is to be for each text the user may type
ExpectedTicker(text) ==
    CASE text = <<"m", "s", "f", "t">> -> "MSFT"
      [] text = <<" ", "G", "o", "o", "g", " ">> -> "GOOG"
      [] OTHER -> ""

\* C16: every accepted submission counts once and stores exactly the typed
\* symbol, trimmed and uppercased, and the timeframe selected in the form,
\* one of short-term and long-term.
C16_DescriptorAsTyped ==
    [][Accepted =>
          /\ hist'.submits = hist.submits + 1
          /\ app'.selectedTicker = ExpectedTicker(form.ticker)
          /\ app'.selectedTicker \in {"MSFT", "GOOG"}
          /\ app'.investmentType = form.timeframe
          /\ form.timeframe \in {"short-term", "long-term"}]_vars

\* C16: a state of the case: " Goog " with long-term has just been accepted
C16_Case ==
    /\ form.ticker = <<" ", "G", "o", "o", "g", " ">>
    /\ form.submitted
    /\ app.isLoading
    /\ app.selectedTicker = "GOOG"
    /\ app.investmentType = "long-term"

\* the data and the loading flag of every section but those of keep are as
\* they were
OthersUnchanged(keep) ==
    \A s \in Sections \ keep :
        /\ dash'[s] = dash[s]
        /\ dash'[LoadingOf(s)] = dash[LoadingOf(s)]

\* C17: a step that changes chartPeriod and leaves ticker and timeframe as
\* they are issues one stock-chart call for the new period and no other
\* call, and leaves the data and the loading flags of the ESG, media,
\* holistic, commentary and financial sections as they were.
C17_PeriodChangeFetchesChartOnly ==
    [][(dash'.chartPeriod # dash.chartPeriod /\ ~DescriptorChanged) =>
          /\ net' = Append(net, Call("stock-chart", app.selectedTicker,
                                     dash'.chartPeriod))
          /\ OthersUnchanged({"chartData"})]_vars

\* C17, with the guard of fetchChartData: the same when a ticker is
\* displayed; while none has been submitted yet the tabs are shown all the
\* same, and a click changes chartPeriod, issues no call and leaves every
\* section as it was.
C17_PeriodChangeWithTicker ==
    [][(dash'.chartPeriod # dash.chartPeriod /\ ~DescriptorChanged) =>
          IF app.selectedTicker # ""
          THEN /\ net' = Append(net, Call("stock-chart", app.selectedTicker,
                                          dash'.chartPeriod))
               /\ OthersUnchanged({"chartData"})
          ELSE /\ net' = net
               /\ OthersUnchanged({})]_vars

\* C17: a state of the case: with every section of MSFT loaded, the 1d tab
\* has been clicked and its call is the only one in flight
C17_Case ==
    /\ net = <<Call("stock-chart", "MSFT", "1d")>>
    /\ dash.chartPeriod = "1d"
    /\ dash.loadingChart
    /\ \A s \in Sections \ {"chartData"} : Succeeded(s) /\ ~dash[LoadingOf(s)]

FinancialSections == {"financialData", "financialSummary", "financialInsight"}

\* the two calls of a financial view, in either order and nothing else
FinancialCalls(ticker, view) ==
    /\ NoneSettled
    /\ Len(Issued) = 2
    /\ Range(Issued) = { Call("financial-chart", ticker, view),
                         Call("financial-recommendation", ticker, view) }

\* C18: a step that changes financialView and leaves ticker and timeframe
\* as they are issues one financial-chart and one financial-recommendation
\* call, both for the new view, and no other call, and leaves every
\* non-financial section, and the chart period, as it was.
C18_ViewChangeFetchesFinancialsOnly ==
    [][(dash'.financialView # dash.financialView /\ ~DescriptorChanged) =>
          /\ FinancialCalls(app.selectedTicker, dash'.financialView)
          /\ OthersUnchanged(FinancialSections)
          /\ dash'.chartPeriod = dash.chartPeriod]_vars

\* C18, with the guards of fetchMetrics and fetchFinancialData: the same
\* when a ticker is displayed; while none has been submitted yet the toggle
\* is shown all the same, and a click changes financialView, issues no call
\* and leaves every section as it was.
C18_ViewChangeWithTicker ==
    [][(dash'.financialView # dash.financialView /\ ~DescriptorChanged) =>
          /\ dash'.chartPeriod = dash.chartPeriod
          /\ IF app.selectedTicker # ""
             THEN /\ FinancialCalls(app.selectedTicker, dash'.financialView)
                  /\ OthersUnchanged(FinancialSections)
             ELSE /\ net' = net
                  /\ OthersUnchanged({})]_vars

\* C18: a state of the case: with every section of MSFT loaded, Annual has
\* been clicked and its two calls are the only ones in flight
C18_Case ==
    /\ Len(net) = 2
    /\ Range(net) = { Call("financial-chart", "MSFT", "5y"),
                      Call("financial-recommendation", "MSFT", "5y") }
    /\ dash.financialView = "5y"
    /\ dash.loadingFinancialData /\ dash.loadingFinancials
    /\ \A s \in Sections \ FinancialSections : Succeeded(s) /\ ~dash[LoadingOf(s)]

\* a click on a tab or a toggle: nothing is submitted, nothing settles
UserClick ==
    /\ app' = app
    /\ form' = form
    /\ NoneSettled
    /\ hist'.events = hist.events + 1

\* C19: a descriptor with another ticker or timeframe sets chartPeriod to
\* the default of its timeframe, 1y for short-term and 5y for long-term,
\* whatever it was; any other step that changes chartPeriod is a click on a
\* tab of the displayed timeframe; a step that settles a call leaves it as
\* it was.
C19_PeriodLifecycle ==
    [][/\ DescriptorChanged =>
              dash'.chartPeriod =
                  (CASE app'.investmentType = "short-term" -> "1y"
                     [] app'.investmentType = "long-term" -> "5y")
       /\ (dash'.chartPeriod # dash.chartPeriod /\ ~DescriptorChanged) =>
              /\ UserClick
              /\ dash'.chartPeriod \in
                    Range(IF app.investmentType = "long-term"
                          THEN LONG_TERM_PERIODS ELSE SHORT_TERM_PERIODS)
       /\ ~NoneSettled => dash'.chartPeriod = dash.chartPeriod]_vars

\* C19: a state of the case: the 1d tab was selected for MSFT short-term,
\* and GOOG long-term has been submitted: the period is 5y
C19_Case ==
    /\ hist.submits = 2
    /\ app.selectedTicker = "GOOG"
    /\ app.investmentType = "long-term"
    /\ dash.chartPeriod = "5y"
    /\ \E i \in DOMAIN net : net[i] = Call("stock-chart", "MSFT", "1d")

\* C20: a descriptor with another ticker or timeframe sets financialView
\* to the default of its timeframe, 1y for short-term and 5y for long-term;
\* any other step that changes financialView is a click on the toggle.
C20_ViewLifecycle ==
    [][/\ DescriptorChanged =>
              dash'.financialView =
                  (CASE app'.investmentType = "short-term" -> "1y"
                     [] app'.investmentType = "long-term" -> "5y")
       /\ (dash'.financialView # dash.financialView /\ ~DescriptorChanged) =>
              UserClick]_vars

\* C20: a state of the case: a long-term descriptor is displayed and the
\* view is the quarterly one, with no toggle clicked
C20_Case ==
    /\ hist.submits = 1
    /\ hist.events = 1
    /\ app.investmentType = "long-term"
    /\ dash.chartPeriod = "5y"
    /\ dash.financialView = "1y"

----------------------------------------------------------------------------
(* Properties of the detail modals *)

\* the visibility flag, the loading flag and the data behind each modal
ModalFlag(m) ==
    CASE m = "stock" -> "showStockModal"
      [] m = "financial" -> "showFinancialModal"
      [] m = "esg" -> "showESGModal"

ModalLoading(m) ==
    CASE m = "stock" -> "loadingStockHistory"
      [] m = "financial" -> "loadingFinancials"
      [] m = "esg" -> "loadingReport"

ModalData(m) ==
    CASE m = "stock" -> "stockHistory"
      [] m = "financial" -> "financialInsight"
      [] m = "esg" -> "esgReport"

Opens(m) == ~dash[ModalFlag(m)] /\ dash'[ModalFlag(m)]
Closes(m) == dash[ModalFlag(m)] /\ ~dash'[ModalFlag(m)]

\* C21: a modal goes from closed to open only in a state where its loading
\* flag is false and its data is neither null nor the empty text.
C21_OpensOnLoadedData ==
    [][\A m \in Modals :
          Opens(m) => /\ ~dash[ModalLoading(m)]
                      /\ dash[ModalData(m)] # "null"
                      /\ dash[ModalData(m)] # ""]_vars

\* C21: a state of the case: the commentary modal is open over a commentary
\* loaded for MSFT
C21_Case ==
    /\ dash.showStockModal
    /\ ~dash.loadingStockHistory
    /\ dash.stockHistory = FieldValue("recommendation", CurrentRequest("stockHistory"))
    /\ Succeeded("stockHistory")

\* a click on an info button or on a way to close a modal: nothing is
\* submitted, no call is issued and none settles
ModalClick ==
    /\ app' = app
    /\ form' = form
    /\ net' = net
    /\ fetchData' = fetchData
    /\ hist'.answer = hist.answer
    /\ hist'.submits = hist.submits

\* C22: the three visibility flags change in steps of the user on a modal
\* only: a step that accepts a descriptor, issues a call or settles one
\* leaves all three as they were.
C22_ModalFlagsByUserOnly ==
    [][(\E m \in Modals : dash'[ModalFlag(m)] # dash[ModalFlag(m)]) =>
          ModalClick]_vars

\* C22: a state of the case: MSFT was loaded, the ESG modal opened, and
\* GOOG is being fetched with the modal still open
C22_Case ==
    /\ dash.showESGModal
    /\ hist.submits = 2
    /\ dash.loadingReport
    /\ Len(net) > 0

\* C23: a step that opens or closes a modal changes the visibility flag of
\* that modal and nothing else of the Dashboard: the data, every loading
\* flag and the other two flags are as they were.
C23_ModalStepChangesFlagOnly ==
    [][\A m \in Modals :
          (Opens(m) \/ Closes(m)) =>
              dash' = [dash EXCEPT ![ModalFlag(m)] = ~dash[ModalFlag(m)]]]_vars

\* C23: a state of the case: the ESG modal is open over the report loaded
\* for the displayed ticker
C23_Case ==
    /\ dash.showESGModal
    /\ ~dash.showStockModal /\ ~dash.showFinancialModal
    /\ Succeeded("esgReport")
    /\ "report" \in Answer("esgReport").has
    /\ dash.esgReport = FieldValue("report", CurrentRequest("esgReport"))

----------------------------------------------------------------------------
(* Properties of the panels *)

Panels == {"HolisticSummary", "MediaAnalysis", "StockHistory",
           "FinancialMetrics", "ESGScore"}

\* what a panel renders in the current state
ViewOf(p) ==
    CASE p = "HolisticSummary" -> HolisticSummaryView(dash)
      [] p = "MediaAnalysis" -> MediaAnalysisView(dash)
      [] p = "StockHistory" -> StockHistoryView(dash)
      [] p = "FinancialMetrics" -> FinancialMetricsView(app.selectedTicker, dash)
      [] p = "ESGScore" -> ESGScoreView(app.selectedTicker, dash)

\* the loading flag of a panel, and whether it has data
PanelLoading(p) ==
    CASE p = "HolisticSummary" -> dash.loadingHolistic
      [] p = "MediaAnalysis" -> dash.loadingMediaSentiment
      [] p = "StockHistory" -> dash.loadingChart
      [] p = "FinancialMetrics" -> dash.loadingFinancialData
      [] p = "ESGScore" -> dash.loadingScores

PanelHasData(p) ==
    CASE p = "HolisticSummary" -> dash.holisticSummary \notin {"null", ""}
      [] p = "MediaAnalysis" -> dash.mediaSentiment \notin {"null", ""}
      [] p = "StockHistory" -> dash.chartData # "[]"
      [] p = "FinancialMetrics" -> dash.financialData # "[]"
      [] p = "ESGScore" -> dash.esgScoresLoaded

LoadingPlaceholders ==
    { "Loading holistic summary...", "Loading media analysis...",
      "Loading chart...", "Loading ESG data..." }

EmptyPlaceholders == { "No ESG data available." }

PopulatedViews == { "summary", "sentiment", "chart", "scores" }

\* C24: with a ticker set every panel renders its loading placeholder while
\* its loading flag is true, a no-data placeholder when it is not loading
\* and has no data, the populated view otherwise, and never nothing.
C24_ThreeStatesPerPanel ==
    app.selectedTicker # "" =>
        \A p \in Panels :
            /\ PanelLoading(p) => ViewOf(p) \in LoadingPlaceholders
            /\ (~PanelLoading(p) /\ ~PanelHasData(p)) =>
                   ViewOf(p) \in EmptyPlaceholders
            /\ (~PanelLoading(p) /\ PanelHasData(p)) =>
                   ViewOf(p) \in PopulatedViews
            /\ ViewOf(p) # "nothing"

\* C24: a state of the case: the financial chart of MSFT is being fetched
\* and the panel renders nothing below its toggle
C24_Case ==
    /\ app.selectedTicker = "MSFT"
    /\ dash.loadingFinancialData
    /\ ViewOf("FinancialMetrics") = "nothing"

----------------------------------------------------------------------------
(* Properties of the join-all revision *)

\* the sections filled from the four calls joined by Promise.all
JoinedSections == {"stockHistory", "esgScores", "mediaSentiment", "esgReport"}

\* what the catch block of fetchData leaves in a section
JoinedError(s) ==
    CASE s = "stockHistory" -> "Error loading stock history."
      [] s = "esgScores" -> "null"
      [] s = "mediaSentiment" -> "Error loading media headlines."
      [] s = "esgReport" -> "Error loading ESG report."

\* a section shows the result of the latest call, its loading flag false
ShowsResult(s) ==
    /\ ~dash[LoadingOf(s)]
    /\ Succeeded(s)
    /\ dash[s] = Delivered(s)

\* C25: the results of the joined calls are committed together: no joined
\* section shows its result for the descriptor while another joined section
\* is still loading or holds its error value.
C25_JoinedResultsAtomic ==
    \A s \in JoinedSections : \A t \in JoinedSections \ {s} :
        ShowsResult(s) => (~dash[LoadingOf(t)] /\ dash[t] # JoinedError(t))

\* C25: a state of the case: fetchData has committed the commentary and is
\* reading the body of the ESG scores, still loading
C25_Case ==
    /\ fetchData.pc = "esg-scores"
    /\ ShowsResult("stockHistory")
    /\ dash.loadingScores /\ dash.loadingMediaSentiment /\ dash.loadingReport

----------------------------------------------------------------------------
(* Dashboard, ESG-only revision with the report fetched by the modal       *)
(* (part_001 lines 477-599).  Its parent passes the ticker; app holds it.  *)

\* lines 478-481
InitDashEsgOnly ==
    [esgScores |-> Null, loading |-> FALSE, showModal |-> FALSE, esgReport |-> Null]

\* lines 483-503: the effect on [ticker]
effectFetchESG(w) ==
    IF Falsy(w.app.selectedTicker)
    THEN w
    ELSE Issue([w EXCEPT !.dash.loading = TRUE], "esg-scores",
               w.app.selectedTicker, "")

\* lines 487-500: fetchESG once its call has settled
fetchESG(d, req, out) ==
    LET d1 == IF Decoded(out)
              THEN [d EXCEPT !.esgScores =
                        Or(Get(out, req, "esg_scores"), "No ESG scores available.")]
              ELSE [d EXCEPT !.esgScores = "Error fetching ESG scores."]
    IN [d1 EXCEPT !.loading = FALSE]

\* lines 506-518: fetchEsgReport once its call has settled; a failure is
\* logged and nothing is set
fetchEsgReportInModal(d, req, out) ==
    IF Decoded(out)
    THEN [d EXCEPT !.esgReport = Get(out, req, "report")]
    ELSE d

\* lines 520-523
handleModalOpen(w) ==
    Issue([w EXCEPT !.dash.showModal = TRUE], "esg-gen-report",
          w.app.selectedTicker, "")

\* lines 525-528
handleModalClose(w) ==
    [w EXCEPT !.dash.showModal = FALSE, !.dash.esgReport = Null]

\* the tickers the parent passes
TickerProps == {"MSFT", "GOOG"}

\* the parent renders the Dashboard with another ticker
TickerProp ==
    \E t \in TickerProps :
        /\ t # app.selectedTicker
        /\ hist.events < MaxEvents
        /\ Install(effectFetchESG([World EXCEPT !.app.selectedTicker = t,
                                                !.hist.events = @ + 1]))

\* a click on the info button, lines 547-553
ModalOpen ==
    /\ ~dash.showModal
    /\ hist.events < MaxEvents
    /\ Install(handleModalOpen([World EXCEPT !.hist.events = @ + 1]))

\* Close button or onRequestClose, lines 582-596
ModalClose ==
    /\ dash.showModal
    /\ Install(handleModalClose(World))

\* a call settles: a delayed one, or the oldest of the others
SettleEsgOnly ==
    \E i \in 1..Min(Len(net), NumLate + 1) :
        \E out \in Outcomes(net[i].ep) :
            /\ IsFault(net[i].ep, out) => hist.events < MaxEvents
            /\ LET req == net[i]
                   w0 == Recorded([World EXCEPT !.net = RemoveAt(@, i)],
                                  req.ep, IsLast(i), out)
               IN Install([w0 EXCEPT !.dash =
                              IF req.ep = "esg-scores"
                              THEN fetchESG(@, req, out)
                              ELSE fetchEsgReportInModal(@, req, out)])

InitEsgOnly ==
    /\ rev = "esg-only"
    /\ app = InitApp
    /\ form = InitForm
    /\ dash = InitDashEsgOnly
    /\ net = <<>>
    /\ fetchData = Idle
    /\ hist = InitHist

NextEsgOnly ==
    \/ TickerProp
    \/ ModalOpen
    \/ ModalClose
    \/ Delay
    \/ SettleEsgOnly

SpecEsgOnly == InitEsgOnly /\ [][NextEsgOnly]_vars

\* C26: the report belongs to one opening of the modal: whenever the modal
\* is closed esgReport is null, whenever the report of an earlier opening
\* arrives.
C26_ReportScopedToModalSession == ~dash.showModal => dash.esgReport = "null"

\* C26: a state of the case: the modal was opened for MSFT and closed, the
\* ticker is GOOG, and the report of MSFT has arrived
C26_Case ==
    /\ ~dash.showModal
    /\ app.selectedTicker = "GOOG"
    /\ dash.esgReport = FieldValue("report", [ticker |-> "MSFT", param |-> ""])

----------------------------------------------------------------------------
(* Properties of the stock chart, per-section revision *)

ChartCallsInFlight == {i \in 1..Len(net) : net[i].ep = "stock-chart"}

\* C27: whenever no stock-chart call is in flight and the call issued last,
\* the one for the displayed ticker and chartPeriod, was answered with a
\* body, chartData is the prices of that body, whatever the order of the
\* answers to overlapping calls.
C27_ChartOfLatestRequest ==
    (ChartCallsInFlight = {} /\ Succeeded("chartData")) =>
        dash.chartData = Delivered("chartData")

\* C27: a state of the case: two chart calls overlapped,
\* both calls are answered, the later one first, and the chart is the one
\* of the earlier call
C27_Case ==
    /\ ChartCallsInFlight = {}
    /\ Succeeded("chartData")
    /\ hist.raced
    /\ "prices" \in Answer("chartData").has
    /\ dash.chartData # FieldValue("prices", CurrentRequest("chartData"))
    /\ dash.chartData # "[]"

\* C28: loadingChart is true in every state in which a stock-chart call is
\* in flight.
C28_LoadingWhileChartPending == ChartCallsInFlight # {} => dash.loadingChart

\* C28: a state of the case: of two overlapping chart calls one is answered
\* and the one for the displayed ticker and period is still in flight
C28_Case ==
    /\ ~dash.loadingChart
    /\ \E i \in ChartCallsInFlight :
          /\ net[i].ticker = app.selectedTicker
          /\ net[i].param = dash.chartPeriod
    /\ dash.chartData # "[]"

\* the tabs of a timeframe
TabSet(timeframe) ==
    CASE timeframe = "short-term" -> {"1d", "5d", "1mo", "3mo", "1y"}
      [] timeframe = "long-term" -> {"5y", "10y", "15y"}

\* C29: every stock-chart call issued carries the ticker of the active
\* descriptor and a period of the tabs of its timeframe, and a step that
\* changes the descriptor issues exactly one stock-chart call.
C29_ChartCallsMatchDescriptor ==
    [][/\ \A i \in DOMAIN Issued :
              Issued[i].ep = "stock-chart" =>
                  /\ Issued[i].ticker = app'.selectedTicker
                  /\ Issued[i].param \in TabSet(app'.investmentType)
       /\ DescriptorChanged => NumIssued("stock-chart") = 1]_vars

\* C29: a state of the case: the first descriptor is long-term, and a
\* stock-chart call for the period 1y is in flight next to the one for 5y
C29_Case ==
    /\ hist.submits = 1
    /\ app.investmentType = "long-term"
    /\ \E i, j \in ChartCallsInFlight :
          /\ net[i] = Call("stock-chart", app.selectedTicker, "1y")
          /\ net[j] = Call("stock-chart", app.selectedTicker, "5y")

----------------------------------------------------------------------------
(* Properties of fetchData, join-all revision *)

SummaryCalls(calls) == {i \in 1..Len(calls) : calls[i].ep = "holistic-summary"}

\* a holistic-summary call is issued in the step
SummaryIssued == Cardinality(SummaryCalls(net')) > Cardinality(SummaryCalls(net))

\* one of the four joined calls rejects, or its body fails to decode, in
\* the step
JoinedFails ==
    \E ep \in JoinedCalls :
        hist.answer[ep].kind # "failed" /\ hist'.answer[ep].kind = "failed"

\* C30: a holistic-summary call is issued only in a step after which the
\* four joined calls have all been answered with a decoded body, and it is
\* the call for the descriptor of the run; a step in which one of the four
\* rejects or fails to decode ends fetchData with no holistic-summary call
\* issued or in flight and with one call of onAllDataLoaded; and
\* onAllDataLoaded is called only where fetchData ends, never twice for a
\* descriptor.
C30_SummaryAfterJoin ==
    [][/\ SummaryIssued =>
              /\ \A ep \in JoinedCalls : hist'.answer[ep].kind = "body"
              /\ net' = Append(net, Call("holistic-summary", app.selectedTicker,
                                         app.investmentType))
       /\ JoinedFails =>
              /\ ~SummaryIssued
              /\ SummaryCalls(net') = {}
              /\ fetchData' = Idle
              /\ hist'.doneCalls = hist.doneCalls + 1
       /\ hist'.doneCalls > hist.doneCalls =>
              /\ fetchData # Idle /\ fetchData' = Idle
              /\ hist'.doneCalls = 1]_vars

\* C30: a state of the case: the four calls resolved, the commentary was
\* decoded, the body of the ESG scores was not: fetchData has ended with one
\* call of onAllDataLoaded and no holistic-summary call
C30_Case ==
    /\ hist.submits = 1
    /\ hist.answer["stock-history"].kind = "body"
    /\ hist.answer["esg-scores"].kind = "failed"
    /\ hist.answer["holistic-summary"] = NoAnswer
    /\ SummaryCalls(net) = {}
    /\ fetchData = Idle
    /\ hist.doneCalls = 1
    /\ ~app.isLoading

====
